---------------------------- MODULE Spec2Model ----------------------------
(* TSPL output parser and validator (test/scripts/parse-tspl.py).          *)
(*                                                                         *)
(* A byte string is a sequence of one-character strings, one per byte.     *)
(* The byte 0xFF (never valid in UTF-8) is written "xFF", the character    *)
(* U+FFFD that decoding puts in its place "uFFFD", and the three bytes     *)
(* EF BF BD that encode U+FFFD are the one element "xEFBFBD".  Python's    *)
(* None is the empty sequence <<>> and a value v that is not None is       *)
(* <<v>>.                                                                  *)
EXTENDS Integers, Sequences, FiniteSets, TLC

-----------------------------------------------------------------------------
(* Characters and strings                                                  *)

None == <<>>

Some(v) == <<v>>

Whitespace == {" ", "\t", "\n", "\r"}

DigitChars == {"0", "1", "2", "3", "4", "5", "6", "7", "8", "9"}

DigitVal(c) ==
    CASE c = "0" -> 0 [] c = "1" -> 1 [] c = "2" -> 2 [] c = "3" -> 3
      [] c = "4" -> 4 [] c = "5" -> 5 [] c = "6" -> 6 [] c = "7" -> 7
      [] c = "8" -> 8 [] c = "9" -> 9

Range(s) == {s[i] : i \in 1..Len(s)}

\* s[p:].startswith(lit)
HasAt(s, p, lit) ==
    /\ p >= 1
    /\ p + Len(lit) - 1 <= Len(s)
    /\ \A k \in 1..Len(lit) : s[p + k - 1] = lit[k]

\* str.startswith
StartsWith(s, prefix) == HasAt(s, 1, prefix)

\* bytes.find, 1-based; 0 when sub does not occur
Find(s, sub) ==
    LET hits == {p \in 1..Len(s) : s[p] = sub[1] /\ HasAt(s, p, sub)}
    IN  IF hits = {} THEN 0 ELSE CHOOSE p \in hits : \A q \in hits : p <= q

\* content.split(marker)[0]
SplitFirst(s, marker) ==
    LET at == Find(s, marker)
    IN  IF at = 0 THEN s ELSE SubSeq(s, 1, at - 1)

\* bytes.decode('utf-8', errors='ignore')
Decode_Ignore(bs) ==
    LET ok(b) == b # "xFF"
        kept  == SelectSeq(bs, ok)
    IN  [i \in 1..Len(kept) |-> IF kept[i] = "xEFBFBD" THEN "uFFFD" ELSE kept[i]]

\* bytes.decode('utf-8', errors='replace'): an ASCII byte decodes to itself, the
\* ill-formed byte 0xFF to U+FFFD, and so does the well-formed EF BF BD
Decode(bs) ==
    [i \in 1..Len(bs) |-> IF bs[i] \in {"xFF", "xEFBFBD"} THEN "uFFFD" ELSE bs[i]]

\* str.encode('utf-8')
Encode(s) == [i \in 1..Len(s) |-> IF s[i] = "uFFFD" THEN "xEFBFBD" ELSE s[i]]

\* the position after the run of characters of set cs that starts at p
RECURSIVE RunEnd(_, _, _)
RunEnd(s, p, cs) ==
    IF p <= Len(s) /\ s[p] \in cs THEN RunEnd(s, p + 1, cs) ELSE p

\* the position before the run of characters of set cs that ends at p
RECURSIVE RunStart(_, _, _)
RunStart(s, p, cs) ==
    IF p >= 1 /\ s[p] \in cs THEN RunStart(s, p - 1, cs) ELSE p

\* str.strip()
Strip(s) == SubSeq(s, RunEnd(s, 1, Whitespace), RunStart(s, Len(s), Whitespace))

\* str.split('\n'): the pieces between the line feeds; never empty,
\* ''.split('\n') is ['']
SplitLines(s) ==
    LET nl      == {i \in 1..Len(s) : s[i] = "\n"}
        nth(k)  == IF k = 0 THEN 0
                   ELSE IF k > Cardinality(nl) THEN Len(s) + 1
                   ELSE CHOOSE p \in nl : Cardinality({q \in nl : q < p}) = k - 1
    IN  [k \in 1..(Cardinality(nl) + 1) |-> SubSeq(s, nth(k - 1) + 1, nth(k) - 1)]

\* '\n'.join(ls), from line i on
RECURSIVE JoinFrom(_, _)
JoinFrom(ls, i) ==
    IF i > Len(ls) THEN <<>>
    ELSE IF i = Len(ls) THEN ls[i]
    ELSE ls[i] \o <<"\n">> \o JoinFrom(ls, i + 1)

JoinLines(ls) == JoinFrom(ls, 1)

-----------------------------------------------------------------------------
(* Regular-expression pieces.  Each takes a position p (the index of the   *)
(* next character to read, 0 when the match has already failed) and gives  *)
(* the position after the piece, or 0 when the piece does not match.       *)

\* a literal
Lit(s, p, lit) == IF p # 0 /\ HasAt(s, p, lit) THEN p + Len(lit) ELSE 0

\* \s*
Spaces0(s, p) == IF p = 0 THEN 0 ELSE RunEnd(s, p, Whitespace)

\* \s+
Spaces1(s, p) == IF p = 0 \/ RunEnd(s, p, Whitespace) = p THEN 0
                 ELSE RunEnd(s, p, Whitespace)

\* \d+
Digits1(s, p) == IF p = 0 \/ RunEnd(s, p, DigitChars) = p THEN 0
                 ELSE RunEnd(s, p, DigitChars)

\* -?\d+
SignedDigits(s, p) == IF p = 0 THEN 0
                      ELSE IF HasAt(s, p, <<"-">>) THEN Digits1(s, p + 1)
                      ELSE Digits1(s, p)

\* \d+(?:\.\d+)?
Number(s, p) ==
    LET a == Digits1(s, p)
        b == Digits1(s, Lit(s, a, <<".">>))
    IN  IF b # 0 THEN b ELSE a

\* (mm|dots?)? : the position after the group (p itself when it is skipped)
UnitEnd(s, p) ==
    IF p = 0 THEN 0
    ELSE IF HasAt(s, p, <<"m", "m">>) THEN p + 2
    ELSE IF HasAt(s, p, <<"d", "o", "t", "s">>) THEN p + 4
    ELSE IF HasAt(s, p, <<"d", "o", "t">>) THEN p + 3
    ELSE p

\* int() of the digits s[a..b-1]
DigitsToInt(s, a, b) ==
    LET F[i \in (a - 1)..(b - 1)] ==
            IF i = a - 1 THEN 0 ELSE 10 * F[i - 1] + DigitVal(s[i])
    IN  F[b - 1]

\* int() of a -?\d+ group s[a..b-1]
ToInt(s, a, b) ==
    IF s[a] = "-" THEN 0 - DigitsToInt(s, a + 1, b) ELSE DigitsToInt(s, a, b)

\* float() of a \d+(?:\.\d+)? group s[a..b-1]: the value is mant / 10^places,
\* with no trailing zero among the decimal places (1.50 = 1.5, 3.0 = 3)
ToFloat(s, a, b) ==
    LET g      == SubSeq(s, a, b - 1)
        dot    == Find(g, <<".">>)
        whole  == IF dot = 0 THEN g ELSE SubSeq(g, 1, dot - 1)
        frac   == IF dot = 0 THEN <<>> ELSE SubSeq(g, dot + 1, Len(g))
        nz     == {i \in 1..Len(frac) : frac[i] # "0"}
        places == IF nz = {} THEN 0 ELSE CHOOSE i \in nz : \A j \in nz : j <= i
        ds     == whole \o SubSeq(frac, 1, places)
    IN  [mant |-> DigitsToInt(ds, 1, Len(ds) + 1), places |-> places]

\* match.group(n) or 'dots', with 'dot' turned into 'dots'
UnitOrDots_Normalised(s, a, b) ==
    IF a = b \/ SubSeq(s, a, b - 1) = <<"d", "o", "t">>
    THEN <<"d", "o", "t", "s">> ELSE SubSeq(s, a, b - 1)

\* match.group(n) or 'dots' for a (mm|dots?)? group s[a..b-1]
UnitOrDots(s, a, b) ==
    IF a = b THEN <<"d", "o", "t", "s">> ELSE SubSeq(s, a, b - 1)


-----------------------------------------------------------------------------
(* The command parsers                                                     *)

SIZE      == <<"S", "I", "Z", "E">>
REFERENCE == <<"R", "E", "F", "E", "R", "E", "N", "C", "E">>
DIRECTION == <<"D", "I", "R", "E", "C", "T", "I", "O", "N">>
GAP       == <<"G", "A", "P">>
BLINE     == <<"B", "L", "I", "N", "E">>
DENSITY   == <<"D", "E", "N", "S", "I", "T", "Y">>
SPEED     == <<"S", "P", "E", "E", "D">>
OFFSET    == <<"O", "F", "F", "S", "E", "T">>
CLS       == <<"C", "L", "S">>
BITMAP    == <<"B", "I", "T", "M", "A", "P">>
PRINT     == <<"P", "R", "I", "N", "T">>

\* re.match(kw \s+(\d+(?:\.\d+)?)\s*(mm|dots?)?,\s*(\d+(?:\.\d+)?)\s*(mm|dots?)?, line):
\* the four groups (float, unit or 'dots', float, unit or 'dots'), or None
MatchDims(line, kw) ==
    LET g1  == Spaces1(line, Lit(line, 1, kw))
        e1  == Number(line, g1)
        g2  == Spaces0(line, e1)
        e2  == UnitEnd(line, g2)
        g3  == Spaces0(line, Lit(line, e2, <<",">>))
        e3  == Number(line, g3)
        g4  == Spaces0(line, e3)
        e4  == UnitEnd(line, g4)
    IN  IF e3 = 0 THEN None
        ELSE Some(<<ToFloat(line, g1, e1), UnitOrDots(line, g2, e2),
                    ToFloat(line, g3, e3), UnitOrDots(line, g4, e4)>>)

\* re.match(kw \s+(\d+), line), or with -?\d+ when signed: the int, or None
MatchInt(line, kw, signed) ==
    LET g1 == Spaces1(line, Lit(line, 1, kw))
        e1 == IF signed THEN SignedDigits(line, g1) ELSE Digits1(line, g1)
    IN  IF e1 = 0 THEN None ELSE Some(ToInt(line, g1, e1))

parse_size(line) ==
    LET m == MatchDims(line, SIZE)
    IN  IF m = None THEN None
        ELSE Some([width |-> m[1][1], width_unit |-> m[1][2],
                   height |-> m[1][3], height_unit |-> m[1][4]])

parse_reference(line) ==
    LET g1 == Spaces1(line, Lit(line, 1, REFERENCE))
        e1 == SignedDigits(line, g1)
        g2 == Spaces0(line, Lit(line, e1, <<",">>))
        e2 == SignedDigits(line, g2)
    IN  IF e2 = 0 THEN None
        ELSE Some([x |-> ToInt(line, g1, e1), y |-> ToInt(line, g2, e2)])

parse_direction(line) == MatchInt(line, DIRECTION, FALSE)

parse_gap(line) ==
    LET m == MatchDims(line, GAP)
    IN  IF m = None THEN None
        ELSE Some([height |-> m[1][1], height_unit |-> m[1][2],
                   offset |-> m[1][3], offset_unit |-> m[1][4]])

parse_bline(line) ==
    LET m == MatchDims(line, BLINE)
    IN  IF m = None THEN None
        ELSE Some([height |-> m[1][1], height_unit |-> m[1][2],
                   offset |-> m[1][3], offset_unit |-> m[1][4]])

parse_density(line) == MatchInt(line, DENSITY, FALSE)

parse_speed(line) == MatchInt(line, SPEED, FALSE)

\* parse_offset with the pattern OFFSET\s+(\d+)
parse_offset_Unsigned(line) == MatchInt(line, OFFSET, FALSE)

parse_offset(line) == MatchInt(line, OFFSET, TRUE)

\* the pattern BITMAP\s+(\d+),\s*(\d+),\s*(\d+),\s*(\d+),\s*(\d+) tried at position p
BitmapAt(s, p) ==
    LET g1 == Spaces1(s, Lit(s, p, BITMAP))
        e1 == Digits1(s, g1)
        g2 == Spaces0(s, Lit(s, e1, <<",">>))
        e2 == Digits1(s, g2)
        g3 == Spaces0(s, Lit(s, e2, <<",">>))
        e3 == Digits1(s, g3)
        g4 == Spaces0(s, Lit(s, e3, <<",">>))
        e4 == Digits1(s, g4)
        g5 == Spaces0(s, Lit(s, e4, <<",">>))
        e5 == Digits1(s, g5)
    IN  IF e5 = 0 THEN None
        ELSE Some([x |-> ToInt(s, g1, e1), y |-> ToInt(s, g2, e2),
                   width_bytes |-> ToInt(s, g3, e3), height |-> ToInt(s, g4, e4),
                   mode |-> ToInt(s, g5, e5)])

\* the pattern PRINT\s+(\d+),\s*(\d+) tried at position p
PrintAt(s, p) ==
    LET g1 == Spaces1(s, Lit(s, p, PRINT))
        e1 == Digits1(s, g1)
        g2 == Spaces0(s, Lit(s, e1, <<",">>))
        e2 == Digits1(s, g2)
    IN  IF e2 = 0 THEN None
        ELSE Some([sets |-> ToInt(s, g1, e1), copies |-> ToInt(s, g2, e2)])

\* re.search(rb'BITMAP...', content): the leftmost match, or None
SearchBitmap(content) ==
    LET hits == {p \in 1..Len(content) :
                    content[p] = BITMAP[1] /\ BitmapAt(content, p) # None}
    IN  IF hits = {} THEN None
        ELSE BitmapAt(content, CHOOSE p \in hits : \A q \in hits : p <= q)

\* re.search(rb'PRINT...', content): the leftmost match, or None
SearchPrint(content) ==
    LET hits == {p \in 1..Len(content) :
                    content[p] = PRINT[1] /\ PrintAt(content, p) # None}
    IN  IF hits = {} THEN None
        ELSE PrintAt(content, CHOOSE p \in hits : \A q \in hits : p <= q)

-----------------------------------------------------------------------------
(* parse_tspl_output                                                       *)

\* TSPLOutput()
NewOutput ==
    [size |-> None, reference |-> None, direction |-> None, gap |-> None,
     bline |-> None, density |-> None, speed |-> None, offset |-> None,
     cls |-> FALSE, bitmap |-> None, print_cmd |-> None,
     raw_commands |-> <<>>, errors |-> <<>>]

\* an error message: its fixed text and the values formatted into it
Err(msg, args) == [msg |-> msg, args |-> args]

\* the whole input decoded and split into lines, the bytes from BITMAP on included
TextLines_Whole(content) == SplitLines(Strip(Decode(content)))

\* the text region split into lines
TextLines(content) == SplitLines(Strip(Decode(SplitFirst(content, BITMAP))))

\* line = line.strip(), with the whitespace kept
Command_Unstripped(raw) == raw

\* line = line.strip()
Command(raw) == Strip(raw)

\* result.<field> = parse_<kind>(line), with a field that is set kept as it is
Assign_FirstWins(old, new) == IF old # None THEN old ELSE new

\* result.<field> = parse_<kind>(line), with the field kept when the line does not
\* fit the grammar
Assign_KeepOnNoMatch(old, new) == IF new = None THEN old ELSE new

\* result.<field> = parse_<kind>(line): the field's value after the assignment
Assign(old, new) == new

\* one pass of the loop over the lines
ScanLine(r, raw) ==
    LET line == Command(raw)
        r1   == [r EXCEPT !.raw_commands = Append(@, line)]
    IN  IF line = <<>> THEN r
        ELSE IF StartsWith(line, SIZE)
        THEN [r1 EXCEPT !.size = Assign(@, parse_size(line))]
        ELSE IF StartsWith(line, REFERENCE)
        THEN [r1 EXCEPT !.reference = Assign(@, parse_reference(line))]
        ELSE IF StartsWith(line, DIRECTION)
        THEN [r1 EXCEPT !.direction = Assign(@, parse_direction(line))]
        ELSE IF StartsWith(line, GAP)
        THEN [r1 EXCEPT !.gap = Assign(@, parse_gap(line))]
        ELSE IF StartsWith(line, BLINE)
        THEN [r1 EXCEPT !.bline = Assign(@, parse_bline(line))]
        ELSE IF StartsWith(line, DENSITY)
        THEN [r1 EXCEPT !.density = Assign(@, parse_density(line))]
        ELSE IF StartsWith(line, SPEED)
        THEN [r1 EXCEPT !.speed = Assign(@, parse_speed(line))]
        ELSE IF StartsWith(line, OFFSET)
        THEN [r1 EXCEPT !.offset = Assign(@, parse_offset(line))]
        ELSE IF line = CLS THEN [r1 EXCEPT !.cls = TRUE]
        ELSE r1

\* the whole loop, from line i on
RECURSIVE ScanFrom(_, _, _)
ScanFrom(r, ls, i) ==
    IF i > Len(ls) THEN r ELSE ScanFrom(ScanLine(r, ls[i]), ls, i + 1)

\* BITMAP, searched in the raw bytes
ScanBitmap(r, content) ==
    LET bitmap_match == SearchBitmap(content)
    IN  IF Find(content, BITMAP) # 0 /\ bitmap_match # None
        THEN [r EXCEPT !.bitmap = bitmap_match]
        ELSE r

\* PRINT, searched in the raw bytes
ScanPrint(r, content) ==
    LET print_match == SearchPrint(content)
    IN  IF Find(content, PRINT) # 0 /\ print_match # None
        THEN [r EXCEPT !.print_cmd = print_match]
        ELSE r

\* the required commands, without the check of cls
ValidateRequired_NoCls(r) ==
    LET e1 == IF r.size = None THEN <<Err("Missing SIZE command", <<>>)>> ELSE <<>>
        e2 == IF r.print_cmd = None THEN <<Err("Missing PRINT command", <<>>)>> ELSE <<>>
    IN  [r EXCEPT !.errors = @ \o e1 \o e2]

\* the required commands
ValidateRequired(r) ==
    LET e1 == IF r.size = None THEN <<Err("Missing SIZE command", <<>>)>> ELSE <<>>
        e2 == IF r.print_cmd = None THEN <<Err("Missing PRINT command", <<>>)>> ELSE <<>>
        e3 == IF ~r.cls THEN <<Err("Missing CLS command", <<>>)>> ELSE <<>>
    IN  [r EXCEPT !.errors = @ \o e1 \o e2 \o e3]

\* the function as a whole
parse_tspl_output(content) ==
    ValidateRequired(
        ScanPrint(ScanBitmap(ScanFrom(NewOutput, TextLines(content), 1), content),
                  content))

-----------------------------------------------------------------------------
(* validate_options                                                        *)

\* JSON values: an int, a string or null
JInt(n) == [type |-> "int", int |-> n, str |-> ""]

JStr(t) == [type |-> "str", int |-> 0, str |-> t]

JNull == [type |-> "null", int |-> 0, str |-> ""]

\* field != value, for an Optional[int] field of the report and a JSON value
Differs(field, value) ==
    ~ \/ field = None /\ value = JNull
      \/ field # None /\ value.type = "int" /\ field = Some(value.int)

\* an expectation document is a JSON object: a function from its keys to their values
ExpKeys == {"density", "speed", "direction", "media_tracking", "comment"}

Has(expected, k) == k \in DOMAIN expected

\* validate_options reading expected.get('speed')
validate_options_Get(r, expected) ==
    LET e1 == IF Has(expected, "density") /\ Differs(r.density, expected["density"])
              THEN <<Err("DENSITY mismatch", <<expected["density"], r.density>>)>>
              ELSE <<>>
        e2 == IF Differs(r.speed, IF Has(expected, "speed") THEN expected["speed"] ELSE JNull)
              THEN <<Err("SPEED mismatch", <<JNull, r.speed>>)>>
              ELSE <<>>
        e3 == IF Has(expected, "direction") /\ Differs(r.direction, expected["direction"])
              THEN <<Err("DIRECTION mismatch", <<expected["direction"], r.direction>>)>>
              ELSE <<>>
        e4 == IF ~Has(expected, "media_tracking") THEN <<>>
              ELSE IF expected["media_tracking"] = JStr("Gap") /\ r.gap = None
              THEN <<Err("Expected GAP command but not found", <<>>)>>
              ELSE IF expected["media_tracking"] = JStr("BLine") /\ r.bline = None
              THEN <<Err("Expected BLINE command but not found", <<>>)>>
              ELSE <<>>
    IN  e1 \o e2 \o e3 \o e4

\* validate_options with gap and bline exchanged
validate_options_Swapped(r, expected) ==
    LET e1 == IF Has(expected, "density") /\ Differs(r.density, expected["density"])
              THEN <<Err("DENSITY mismatch", <<expected["density"], r.density>>)>>
              ELSE <<>>
        e2 == IF Has(expected, "speed") /\ Differs(r.speed, expected["speed"])
              THEN <<Err("SPEED mismatch", <<expected["speed"], r.speed>>)>>
              ELSE <<>>
        e3 == IF Has(expected, "direction") /\ Differs(r.direction, expected["direction"])
              THEN <<Err("DIRECTION mismatch", <<expected["direction"], r.direction>>)>>
              ELSE <<>>
        e4 == IF ~Has(expected, "media_tracking") THEN <<>>
              ELSE IF expected["media_tracking"] = JStr("Gap") /\ r.bline = None
              THEN <<Err("Expected GAP command but not found", <<>>)>>
              ELSE IF expected["media_tracking"] = JStr("BLine") /\ r.gap = None
              THEN <<Err("Expected BLINE command but not found", <<>>)>>
              ELSE <<>>
    IN  e1 \o e2 \o e3 \o e4

validate_options(r, expected) ==
    LET e1 == IF Has(expected, "density") /\ Differs(r.density, expected["density"])
              THEN <<Err("DENSITY mismatch", <<expected["density"], r.density>>)>>
              ELSE <<>>
        e2 == IF Has(expected, "speed") /\ Differs(r.speed, expected["speed"])
              THEN <<Err("SPEED mismatch", <<expected["speed"], r.speed>>)>>
              ELSE <<>>
        e3 == IF Has(expected, "direction") /\ Differs(r.direction, expected["direction"])
              THEN <<Err("DIRECTION mismatch", <<expected["direction"], r.direction>>)>>
              ELSE <<>>
        e4 == IF ~Has(expected, "media_tracking") THEN <<>>
              ELSE IF expected["media_tracking"] = JStr("Gap") /\ r.gap = None
              THEN <<Err("Expected GAP command but not found", <<>>)>>
              ELSE IF expected["media_tracking"] = JStr("BLine") /\ r.bline = None
              THEN <<Err("Expected BLINE command but not found", <<>>)>>
              ELSE <<>>
    IN  e1 \o e2 \o e3 \o e4

-----------------------------------------------------------------------------
(* Inputs: the bytes of a job file.  Besides the characters themselves the *)
(* bytes 0x00 ("x00") and 0xFF ("xFF") occur.                              *)

\* SIZE 101 mm,152 mm
L_SIZE_MM ==
    <<"S", "I", "Z", "E", " ", "1", "0", "1", " ", "m", "m", ",", "1", "5",
      "2", " ", "m", "m">>

\* SIZE 100,150
L_SIZE_DOTS ==
    <<"S", "I", "Z", "E", " ", "1", "0", "0", ",", "1", "5", "0">>

\* SIZE 100
L_SIZE_BAD ==
    <<"S", "I", "Z", "E", " ", "1", "0", "0">>

\* REFERENCE 0,-8
L_REFERENCE ==
    <<"R", "E", "F", "E", "R", "E", "N", "C", "E", " ", "0", ",", "-", "8">>

\* DIRECTION 0
L_DIRECTION0 ==
    <<"D", "I", "R", "E", "C", "T", "I", "O", "N", " ", "0">>

\* DIRECTION 1
L_DIRECTION1 ==
    <<"D", "I", "R", "E", "C", "T", "I", "O", "N", " ", "1">>

\* GAP 3 mm,0 mm
L_GAP_MM ==
    <<"G", "A", "P", " ", "3", " ", "m", "m", ",", "0", " ", "m", "m">>

\* GAP 2.5,0
L_GAP_DOTS ==
    <<"G", "A", "P", " ", "2", ".", "5", ",", "0">>

\* GAP 3 mm
L_GAP_BAD ==
    <<"G", "A", "P", " ", "3", " ", "m", "m">>

\* BLINE 2 mm,0
L_BLINE ==
    <<"B", "L", "I", "N", "E", " ", "2", " ", "m", "m", ",", "0">>

\* DENSITY 8
L_DENSITY8 ==
    <<"D", "E", "N", "S", "I", "T", "Y", " ", "8">>

\* DENSITY 9
L_DENSITY9 ==
    <<"D", "E", "N", "S", "I", "T", "Y", " ", "9">>

\* DENSITY x
L_DENSITY_BAD ==
    <<"D", "E", "N", "S", "I", "T", "Y", " ", "x">>

\* SPEED 4
L_SPEED4 ==
    <<"S", "P", "E", "E", "D", " ", "4">>

\* SPEED 6\xff
L_SPEED_FF ==
    <<"S", "P", "E", "E", "D", " ", "6", "xFF">>

\* OFFSET -5
L_OFFSET ==
    <<"O", "F", "F", "S", "E", "T", " ", "-", "5">>

\*  CLS\r
L_CLS ==
    <<" ", "C", "L", "S", "\r">>

\* PRINT 2,2
L_PRINT2 ==
    <<"P", "R", "I", "N", "T", " ", "2", ",", "2">>

\* \xff
L_FF ==
    <<"xFF">>

\*  
L_BLANK ==
    <<" ">>

\* BITMAP 0,0,1,2,0,
BITMAP_HEADER ==
    <<"B", "I", "T", "M", "A", "P", " ", "0", ",", "0", ",", "1", ",", "2",
      ",", "0", ",">>

\* BITMAP\xff
BITMAP_BAD ==
    <<"B", "I", "T", "M", "A", "P", "xFF">>

\* \x00\xff
PAYLOAD ==
    <<"x00", "xFF">>

\* \xff\nPRINT 9,9\n
PAYLOAD_PRINT ==
    <<"xFF", "\n", "P", "R", "I", "N", "T", " ", "9", ",", "9", "\n">>

\* \nSIZE 7,7\nCLS\n\x00
PAYLOAD_TEXT ==
    <<"\n", "S", "I", "Z", "E", " ", "7", ",", "7", "\n", "C", "L", "S",
      "\n", "x00">>

\* \nPRINT 1,1\n
TRAILER ==
    <<"\n", "P", "R", "I", "N", "T", " ", "1", ",", "1", "\n">>

\* SIZE PRINT 3,3
L_SIZE_PRINT ==
    <<"S", "I", "Z", "E", " ", "P", "R", "I", "N", "T", " ", "3", ",", "3">>

\* REFERENCE 16,0
L_REFERENCE2 ==
    <<"R", "E", "F", "E", "R", "E", "N", "C", "E", " ", "1", "6", ",", "0">>

\* REFERENCE 16
L_REFERENCE_BAD ==
    <<"R", "E", "F", "E", "R", "E", "N", "C", "E", " ", "1", "6">>

\* DIRECTION -1
L_DIRECTION_BAD ==
    <<"D", "I", "R", "E", "C", "T", "I", "O", "N", " ", "-", "1">>

\* BLINE 0.50,1 dot
L_BLINE2 ==
    <<"B", "L", "I", "N", "E", " ", "0", ".", "5", "0", ",", "1", " ", "d",
      "o", "t">>

\* BLINE ,0
L_BLINE_BAD ==
    <<"B", "L", "I", "N", "E", " ", ",", "0">>

\* SPEED
L_SPEED_BAD ==
    <<"S", "P", "E", "E", "D">>

\* OFFSET 12
L_OFFSET2 ==
    <<"O", "F", "F", "S", "E", "T", " ", "1", "2">>

\* OFFSET - 5
L_OFFSET_BAD ==
    <<"O", "F", "F", "S", "E", "T", " ", "-", " ", "5">>

\* headers of at most n lines of lib, each line ended by a line feed
RECURSIVE HeadersOf(_, _)
HeadersOf(lib, n) ==
    IF n = 0 THEN {<<>>}
    ELSE HeadersOf(lib, n - 1)
           \cup {h \o l \o <<"\n">> : h \in HeadersOf(lib, n - 1), l \in lib}

\* what may follow the header: nothing, or a BITMAP command with its payload
Tails ==
    {<<>>,
     BITMAP_HEADER \o PAYLOAD \o TRAILER,
     BITMAP_HEADER \o PAYLOAD_PRINT \o TRAILER,
     BITMAP_HEADER \o PAYLOAD_TEXT \o TRAILER,
     BITMAP_HEADER \o PAYLOAD,
     BITMAP_BAD \o TRAILER}

MaxLines == 3

\* lines of several kinds, among them a PRINT line in the text region, undecodable
\* bytes and a blank line
ParseLines == {L_SIZE_MM, L_DENSITY8, L_SPEED_FF, L_CLS, L_PRINT2, L_FF, L_BLANK}

\* per command kind: two lines that fit its grammar and lines that start with its
\* prefix and do not
Kinds ==
    {"size", "reference", "direction", "gap", "bline", "density", "speed", "offset"}

KindLines(k) ==
    CASE k = "size"      -> {L_SIZE_MM, L_SIZE_DOTS, L_SIZE_BAD, L_SIZE_PRINT}
      [] k = "reference" -> {L_REFERENCE, L_REFERENCE2, L_REFERENCE_BAD}
      [] k = "direction" -> {L_DIRECTION0, L_DIRECTION1, L_DIRECTION_BAD}
      [] k = "gap"       -> {L_GAP_MM, L_GAP_DOTS, L_GAP_BAD}
      [] k = "bline"     -> {L_BLINE, L_BLINE2, L_BLINE_BAD}
      [] k = "density"   -> {L_DENSITY8, L_DENSITY9, L_DENSITY_BAD}
      [] k = "speed"     -> {L_SPEED4, L_SPEED_FF, L_SPEED_BAD}
      [] k = "offset"    -> {L_OFFSET, L_OFFSET2, L_OFFSET_BAD}

ParseInputs ==
    {h \o t : h \in HeadersOf(ParseLines, MaxLines), t \in Tails}
      \cup UNION {{h \o t : h \in HeadersOf(KindLines(k) \cup {L_CLS}, MaxLines),
                            t \in {<<>>, BITMAP_HEADER \o PAYLOAD \o TRAILER}} :
                  k \in Kinds}

\* the orders of the indices in ix
RECURSIVE Orders(_)
Orders(ix) ==
    IF ix = {} THEN {<<>>}
    ELSE UNION {{<<i>> \o rest : rest \in Orders(ix \ {i})} : i \in ix}

\* the lines ls[order[1]], ls[order[2]], ..., each ended by a line feed
RECURSIVE Header(_, _, _)
Header(ls, order, i) ==
    IF i > Len(order) THEN <<>>
    ELSE ls[order[i]] \o <<"\n">> \o Header(ls, order, i + 1)

\* one line of each of SIZE, REFERENCE, DIRECTION, GAP, DENSITY, SPEED, OFFSET and
\* CLS
WellFormedLines ==
    <<L_SIZE_MM, L_REFERENCE, L_DIRECTION0, L_GAP_MM, L_DENSITY8, L_SPEED4, L_OFFSET,
      L_CLS>>

\* the lines ls in every order, then BITMAP with a payload and the trailing PRINT
WellFormedInputs(ls) ==
    {Header(ls, order, 1) \o BITMAP_HEADER \o PAYLOAD_PRINT \o TRAILER :
        order \in Orders(DOMAIN ls)}

MaxJobLines == 2

JobLines ==
    {L_DENSITY8, L_DENSITY9, L_SPEED4, L_DIRECTION1, L_GAP_MM, L_GAP_DOTS, L_BLINE}

JobInputs ==
    {f \o h \o t : f \in {<<>>, L_SIZE_MM \o <<"\n">> \o L_CLS \o <<"\n">>},
                   h \in HeadersOf(JobLines, MaxJobLines),
                   t \in {<<>>, BITMAP_HEADER \o PAYLOAD \o TRAILER}}

\* expectation files: unreadable, not JSON, a JSON number, the empty JSON array, or
\* a JSON object with at most MaxExpKeys of the keys
MaxExpKeys == 2

ExpValues(k) ==
    CASE k = "density"        -> {JInt(8), JNull, JStr("8")}
      [] k = "speed"          -> {JInt(4), JInt(5)}
      [] k = "direction"      -> {JInt(1), JInt(0)}
      [] k = "media_tracking" -> {JStr("Gap"), JStr("BLine"), JStr("Continuous")}
      [] k = "comment"        -> {JStr("x")}

ExpObjects ==
    UNION {{f \in [K -> UNION {ExpValues(k) : k \in K}] :
                \A k \in K : f[k] \in ExpValues(k)} :
           K \in {K \in SUBSET ExpKeys : Cardinality(K) <= MaxExpKeys}}

ExpFiles ==
    {[kind |-> "unreadable", obj |-> <<>>], [kind |-> "invalid", obj |-> <<>>],
     [kind |-> "number", obj |-> <<>>], [kind |-> "array", obj |-> <<>>]}
      \cup {[kind |-> "object", obj |-> f] : f \in ExpObjects}

-----------------------------------------------------------------------------
(* main                                                                    *)

VARIABLES
    argc,       \* len(sys.argv)
    pc,         \* where main is
    content,    \* the bytes read from tspl_file
    lines,      \* parse_tspl_output: lines
    idx,        \* parse_tspl_output: the index in lines of the loop's next line
    result,     \* the TSPLOutput
    expected,   \* the loaded expectation document
    stdout,     \* the documents printed to stdout
    stderr,     \* the lines printed to stderr
    exit_code   \* None while running

vars == <<argc, pc, content, lines, idx, result, expected, stdout, stderr, exit_code>>

Init ==
    /\ argc \in 1..3
    /\ pc = "start"
    /\ content = <<>>
    /\ lines = <<>>
    /\ idx = 1
    /\ result = NewOutput
    /\ expected = [kind |-> "none", obj |-> <<>>]
    /\ stdout = <<>>
    /\ stderr = <<>>
    /\ exit_code = None

\* an uncaught exception: the traceback and exit code 1
Crash ==
    /\ pc' = "crashed"
    /\ stderr' = Append(stderr, Err("Traceback", <<>>))
    /\ exit_code' = Some(1)

\* main, called with no file argument
Usage ==
    /\ pc = "start" /\ argc < 2
    /\ pc' = "exited"
    /\ stderr' = Append(stderr, Err("Usage", <<>>))
    /\ exit_code' = Some(1)
    /\ UNCHANGED <<argc, content, lines, idx, result, expected, stdout>>

\* open(tspl_file, 'rb') fails
ReadFails ==
    /\ pc = "start" /\ argc >= 2
    /\ Crash
    /\ UNCHANGED <<argc, content, lines, idx, result, expected, stdout>>

\* content = f.read()
ReadInput(inputs) ==
    /\ pc = "start" /\ argc >= 2
    /\ \E c \in inputs : content' = c
    /\ pc' = "read"
    /\ UNCHANGED <<argc, lines, idx, result, expected, stdout, stderr, exit_code>>

\* parse_tspl_output, up to the loop
Extract ==
    /\ pc = "read"
    /\ result' = NewOutput
    /\ lines' = TextLines(content)
    /\ idx' = 1
    /\ pc' = "scan"
    /\ UNCHANGED <<argc, content, expected, stdout, stderr, exit_code>>

\* one pass of the loop
ScanStep ==
    /\ pc = "scan" /\ idx <= Len(lines)
    /\ result' = ScanLine(result, lines[idx])
    /\ idx' = idx + 1
    /\ UNCHANGED <<argc, pc, content, lines, expected, stdout, stderr, exit_code>>

\* after the loop: BITMAP and PRINT from the raw bytes, the required commands
Finish ==
    /\ pc = "scan" /\ idx > Len(lines)
    /\ result' = ValidateRequired(ScanPrint(ScanBitmap(result, content), content))
    /\ pc' = "parsed"
    /\ UNCHANGED <<argc, content, lines, idx, expected, stdout, stderr, exit_code>>

\* open(expected_file) and json.load
LoadExpected(files) ==
    /\ pc = "parsed" /\ argc > 2
    /\ \E f \in files :
          IF f.kind \in {"unreadable", "invalid"}
          THEN Crash /\ UNCHANGED expected
          ELSE /\ expected' = f
               /\ pc' = "loaded"
               /\ UNCHANGED <<stderr, exit_code>>
    /\ UNCHANGED <<argc, content, lines, idx, result, stdout>>

\* validate_options and errors.extend; 'density' in expected raises TypeError
\* when expected is a number, and is false of every key when it is the empty array
ValidateOptions ==
    /\ pc = "loaded"
    /\ IF expected.kind \in {"object", "array"}
       THEN /\ result' = [result EXCEPT
                            !.errors = @ \o validate_options(result, expected.obj)]
            /\ pc' = "validated"
            /\ UNCHANGED <<stderr, exit_code>>
       ELSE Crash /\ UNCHANGED result
    /\ UNCHANGED <<argc, content, lines, idx, expected, stdout>>

\* print(json.dumps(asdict(result))), only for a report without errors
Emit_IfClean ==
    /\ \/ pc = "parsed" /\ argc <= 2
       \/ pc = "validated"
    /\ stdout' = IF result.errors = <<>> THEN Append(stdout, result) ELSE stdout
    /\ pc' = "emitted"
    /\ UNCHANGED <<argc, content, lines, idx, result, expected, stderr, exit_code>>

\* print(json.dumps(asdict(result)))
Emit ==
    /\ \/ pc = "parsed" /\ argc <= 2
       \/ pc = "validated"
    /\ stdout' = Append(stdout, result)
    /\ pc' = "emitted"
    /\ UNCHANGED <<argc, content, lines, idx, result, expected, stderr, exit_code>>

\* the end of main: the errors to stderr and exit code 1, or a normal return
Exit ==
    /\ pc = "emitted"
    /\ IF result.errors # <<>>
       THEN /\ stderr' = stderr \o <<Err("Validation errors:", <<>>)>> \o result.errors
            /\ exit_code' = Some(1)
       ELSE /\ stderr' = stderr
            /\ exit_code' = Some(0)
    /\ pc' = "exited"
    /\ UNCHANGED <<argc, content, lines, idx, result, expected, stdout>>

Parse == Extract \/ ScanStep \/ Finish

Next ==
    \/ Usage
    \/ ReadFails
    \/ ReadInput(JobInputs)
    \/ Parse
    \/ LoadExpected(ExpFiles)
    \/ ValidateOptions
    \/ Emit
    \/ Exit

Spec == Init /\ [][Next]_vars

\* parse_tspl_output alone, on every input of ParseInputs
InitParse == Init /\ argc = 2

NextParse == ReadInput(ParseInputs) \/ Parse

SpecParse == InitParse /\ [][NextParse]_vars

\* parse_tspl_output in one step
ParseWhole ==
    /\ pc = "read"
    /\ result' = parse_tspl_output(content)
    /\ lines' = TextLines(content)
    /\ idx' = Len(TextLines(content)) + 1
    /\ pc' = "parsed"
    /\ UNCHANGED <<argc, content, expected, stdout, stderr, exit_code>>

\* parse_tspl_output alone, on the well-formed inputs
NextWellFormed == ReadInput(WellFormedInputs(WellFormedLines)) \/ ParseWhole

SpecWellFormed == InitParse /\ [][NextWellFormed]_vars

\* what may follow a dimension: nothing, or mm, dot or dots, after a space or not
Suffixes ==
    {<<>>, <<"m", "m">>, <<" ", "m", "m">>, <<"d", "o", "t">>, <<" ", "d", "o", "t">>,
     <<"d", "o", "t", "s">>, <<" ", "d", "o", "t", "s">>}

\* the dimensions: an integer and a decimal
Dimensions == {<<"1", "0", "0">>, <<"2", ".", "5">>}

\* the line  kw n1 s1,n2 s2
UnitLine(kw, n1, s1, n2, s2) == kw \o <<" ">> \o n1 \o s1 \o <<",">> \o n2 \o s2

\* the SIZE, GAP and BLINE lines with every choice of the two suffixes
UnitInputs ==
    {UnitLine(kw, n1, s1, n2, s2) \o <<"\n">> :
        kw \in {SIZE, GAP, BLINE}, n1 \in Dimensions, s1 \in Suffixes,
        n2 \in Dimensions, s2 \in Suffixes}

\* parse_tspl_output alone, on the lines of UnitInputs
NextUnits == ReadInput(UnitInputs) \/ ParseWhole

SpecUnits == InitParse /\ [][NextUnits]_vars

-----------------------------------------------------------------------------
(* What the claims speak of                                                *)

PrefixOf(k) ==
    CASE k = "size" -> SIZE [] k = "reference" -> REFERENCE
      [] k = "direction" -> DIRECTION [] k = "gap" -> GAP [] k = "bline" -> BLINE
      [] k = "density" -> DENSITY [] k = "speed" -> SPEED [] k = "offset" -> OFFSET

ParseKind(k, line) ==
    CASE k = "size" -> parse_size(line) [] k = "reference" -> parse_reference(line)
      [] k = "direction" -> parse_direction(line) [] k = "gap" -> parse_gap(line)
      [] k = "bline" -> parse_bline(line) [] k = "density" -> parse_density(line)
      [] k = "speed" -> parse_speed(line) [] k = "offset" -> parse_offset(line)

FieldOf(r, k) ==
    CASE k = "size" -> r.size [] k = "reference" -> r.reference
      [] k = "direction" -> r.direction [] k = "gap" -> r.gap [] k = "bline" -> r.bline
      [] k = "density" -> r.density [] k = "speed" -> r.speed [] k = "offset" -> r.offset

\* the line-parsed fields of a report
LineFields(r) ==
    <<r.size, r.reference, r.direction, r.gap, r.bline, r.density, r.speed, r.offset,
      r.cls>>

\* the indices of the lines of ls that are commands of kind k
LinesOfKind(ls, k) == {i \in 1..Len(ls) : StartsWith(Strip(ls[i]), PrefixOf(k))}

First(S) == CHOOSE i \in S : \A j \in S : i <= j

Last(S) == CHOOSE i \in S : \A j \in S : j <= i

\* the line starts with the prefix of kind k and does not fit its grammar
Malformed(k, line) == StartsWith(line, PrefixOf(k)) /\ ParseKind(k, line) = None

\* how many errors of the report carry the message msg
ErrorCount(r, msg) == Cardinality({i \in 1..Len(r.errors) : r.errors[i].msg = msg})

RequiredMessages ==
    {"Missing SIZE command", "Missing PRINT command", "Missing CLS command"}

\* the bytes before the first BITMAP marker
TextRegion(bs) == SplitFirst(bs, BITMAP)

\* where line i of TextLines(bs) starts in bs
RECURSIVE LineStart(_, _, _)
LineStart(bs, ls, i) ==
    IF i = 1 THEN RunEnd(TextRegion(bs), 1, Whitespace)
    ELSE LineStart(bs, ls, i - 1) + Len(ls[i - 1]) + 1

\* bs with line i of its text region, and the line feed that ends it, removed
WithoutLine(bs, i) ==
    LET ls   == TextLines(bs)
        from == LineStart(bs, ls, i)
        to   == from + Len(ls[i])
        next == IF to <= Len(bs) /\ bs[to] = "\n" THEN to + 1 ELSE to
    IN  SubSeq(bs, 1, from - 1) \o SubSeq(bs, next, Len(bs))

\* the sequence ls without its element i
Drop(ls, i) == SubSeq(ls, 1, i - 1) \o SubSeq(ls, i + 1, Len(ls))

\* how many elements of the sequence s are c
Occurrences(s, c) == Cardinality({i \in 1..Len(s) : s[i] = c})

-----------------------------------------------------------------------------
(* C1: after parse_tspl_output the errors hold "Missing SIZE command"      *)
(* exactly when size is None, "Missing PRINT command" exactly when         *)
(* print_cmd is None and "Missing CLS command" exactly when cls is false,  *)
(* each at most once; an input with no SIZE line in its text region always *)
(* yields "Missing SIZE command".                                          *)
C1_RequiredErrors ==
    pc = "parsed" =>
      /\ ErrorCount(result, "Missing SIZE command")
            = (IF result.size = None THEN 1 ELSE 0)
      /\ ErrorCount(result, "Missing PRINT command")
            = (IF result.print_cmd = None THEN 1 ELSE 0)
      /\ ErrorCount(result, "Missing CLS command") = (IF result.cls THEN 0 ELSE 1)
      /\ (LinesOfKind(lines, "size") = {}
            => ErrorCount(result, "Missing SIZE command") = 1)

C1_Witness ==
    /\ pc = "parsed"
    /\ LinesOfKind(lines, "size") = {}
    /\ Len(result.raw_commands) >= 2
    /\ result.cls /\ result.print_cmd # None /\ result.bitmap # None
    /\ result.errors = <<Err("Missing SIZE command", <<>>)>>

(* C2 as claimed: each line-parsed field holds the value of the first      *)
(* line of its kind that fits the grammar, and a later line of that kind   *)
(* never changes it.                                                       *)
C2_FirstMatchWins ==
    pc = "parsed" =>
      \A k \in Kinds :
        LET fits == {i \in LinesOfKind(lines, k) :
                        ParseKind(k, Strip(lines[i])) # None}
        IN  FieldOf(result, k)
              = (IF fits = {} THEN None ELSE ParseKind(k, Strip(lines[First(fits)])))

(* C2 amended: every line of a kind assigns the field again, so the field  *)
(* of the final report holds what the parser of that kind returns for the  *)
(* last line of the kind: its value, or None when that line does not fit   *)
(* the grammar.                                                            *)
C2_LastLineWins ==
    pc = "parsed" =>
      \A k \in Kinds :
        LET of_kind == LinesOfKind(lines, k)
        IN  FieldOf(result, k)
              = (IF of_kind = {} THEN None
                 ELSE ParseKind(k, Strip(lines[Last(of_kind)])))

C2_Witness ==
    /\ pc = "parsed"
    /\ \E k \in Kinds :
         LET of_kind == LinesOfKind(lines, k)
         IN  /\ Cardinality(of_kind) >= 2
             /\ ParseKind(k, Strip(lines[First(of_kind)])) # None
             /\ FieldOf(result, k) # None
             /\ FieldOf(result, k) # ParseKind(k, Strip(lines[First(of_kind)]))

(* C3 as claimed: a line with a known prefix that does not fit the grammar *)
(* leaves its field as it was and records no error: the report's fields    *)
(* and errors are those of the input with that line removed.               *)
C3_SilentNonMatch ==
    pc = "parsed" =>
      \A i \in 1..Len(lines) : \A k \in Kinds :
        Malformed(k, Strip(lines[i])) =>
          /\ FieldOf(ScanFrom(NewOutput, SubSeq(lines, 1, i), 1), k)
                = FieldOf(ScanFrom(NewOutput, SubSeq(lines, 1, i - 1), 1), k)
          /\ [result EXCEPT !.raw_commands = <<>>]
                = [parse_tspl_output(WithoutLine(content, i))
                     EXCEPT !.raw_commands = <<>>]

(* C3 amended: such a line records no error of its own, but it assigns     *)
(* None to its field.  When it is the last line of its kind the field ends *)
(* None, and the line-parsed fields of the report equal those of the input *)
(* with the line removed exactly when the field was None before the line   *)
(* or a later line of the same kind follows.                               *)
C3_NonMatchClearsField ==
    pc = "parsed" =>
      /\ \A e \in Range(result.errors) : e.msg \in RequiredMessages
      /\ \A i \in 1..Len(lines) : \A k \in Kinds :
           Malformed(k, Strip(lines[i])) =>
             LET before == FieldOf(ScanFrom(NewOutput, SubSeq(lines, 1, i - 1), 1), k)
                 later  == \E j \in LinesOfKind(lines, k) : j > i
                 other  == parse_tspl_output(WithoutLine(content, i))
             IN  /\ other.raw_commands = ScanFrom(NewOutput, Drop(lines, i), 1).raw_commands
                 /\ ~later => FieldOf(result, k) = None
                 /\ (LineFields(result) = LineFields(other)) <=> (before = None \/ later)

C3_Witness ==
    /\ pc = "parsed"
    /\ \E i \in 1..Len(lines) : \E k \in Kinds :
         /\ Malformed(k, Strip(lines[i]))
         /\ FieldOf(ScanFrom(NewOutput, SubSeq(lines, 1, i - 1), 1), k) # None
         /\ FieldOf(result, k) = None
         /\ FieldOf(parse_tspl_output(WithoutLine(content, i)), k) # None

\* the input is a header without PRINT, then BITMAP with a payload that holds
\* PRINT 9,9, then the trailing PRINT 1,1
PayloadHoldsPrint(bs) ==
    LET at == Find(bs, BITMAP)
    IN  /\ at # 0
        /\ SubSeq(bs, at, Len(bs)) = BITMAP_HEADER \o PAYLOAD_PRINT \o TRAILER
        /\ Find(SubSeq(bs, 1, at - 1), PRINT) = 0

(* C4: when the payload of BITMAP holds bytes that look like a PRINT       *)
(* command with other values, that occurrence is no entry of raw_commands  *)
(* and print_cmd holds the values of the trailing PRINT command.           *)
C4_TrailingPrintCaptured ==
    (pc = "parsed" /\ PayloadHoldsPrint(content)) =>
      /\ \A i \in 1..Len(result.raw_commands) :
            ~StartsWith(result.raw_commands[i], PRINT)
      /\ result.print_cmd = Some([sets |-> 1, copies |-> 1])

\* the mismatch message of a key
MismatchMessage(k) ==
    CASE k = "density" -> "DENSITY mismatch" [] k = "speed" -> "SPEED mismatch"
      [] k = "direction" -> "DIRECTION mismatch"

\* Python's field != value for an Optional[int] and a JSON value
ValueDiffers(field, value) ==
    IF value.type = "null" THEN field # None
    ELSE IF value.type = "int" THEN field # Some(value.int)
    ELSE TRUE

(* C5: for each key of density, speed and direction, validate_options      *)
(* gives a mismatch error exactly when the key is in the expectation set   *)
(* and the report's value differs from the expected one; a key that is not *)
(* in the set gives no error.                                              *)
C5_PartialExpectations ==
    pc = "validated" =>
      \A k \in {"density", "speed", "direction"} :
        ErrorCount(result, MismatchMessage(k))
          = (IF /\ k \in DOMAIN expected.obj
                /\ ValueDiffers(FieldOf(result, k), expected.obj[k])
             THEN 1 ELSE 0)

C5_Witness ==
    /\ pc = "validated"
    /\ DOMAIN expected.obj = {"density"}
    /\ expected.obj["density"] = JInt(8)
    /\ result.density = Some(9)
    /\ result.speed = Some(4)
    /\ ErrorCount(result, "DENSITY mismatch") = 1
    /\ ErrorCount(result, "SPEED mismatch") = 0

(* C6: with media_tracking "Gap" validate_options reports an error exactly *)
(* when gap is None, with "BLine" exactly when bline is None; what the gap *)
(* or bline field holds has no part in it.                                 *)
C6_MediaTrackingPresenceOnly ==
    pc = "validated" =>
      LET tracking == IF "media_tracking" \in DOMAIN expected.obj
                      THEN expected.obj["media_tracking"] ELSE JNull
      IN  /\ ErrorCount(result, "Expected GAP command but not found")
               = (IF tracking = JStr("Gap") /\ result.gap = None THEN 1 ELSE 0)
          /\ ErrorCount(result, "Expected BLINE command but not found")
               = (IF tracking = JStr("BLine") /\ result.bline = None THEN 1 ELSE 0)

C6_Witness ==
    /\ pc = "validated"
    /\ "media_tracking" \in DOMAIN expected.obj
    /\ expected.obj["media_tracking"] = JStr("Gap")
    /\ result.gap = parse_gap(L_GAP_DOTS)
    /\ result.bline = None
    /\ ErrorCount(result, "Expected GAP command but not found") = 0
    /\ ErrorCount(result, "Expected BLINE command but not found") = 0

\* parse_tspl_output has been entered: the input file was read
InputRead == lines # <<>>

UndecodableText(bs) == "xFF" \in Range(TextRegion(bs))

Reparsed(r) == parse_tspl_output(Encode(JoinLines(r.raw_commands)))

C10_WellFormedComplete ==
    pc = "parsed" =>
      /\ \A k \in Kinds \ {"bline"} : FieldOf(result, k) # None
      /\ result.bitmap # None
      /\ result.print_cmd # None
      /\ result.cls
      /\ result.errors = <<>>

C10_Witness ==
    /\ pc = "parsed"
    /\ Len(result.raw_commands) = 8
    /\ result.raw_commands[1] = CLS
    /\ result.raw_commands[8] = L_SIZE_MM
    /\ result.offset = Some(-5)
    /\ result.direction = Some(0)
    /\ result.errors = <<>>

\* the unit fields of the size, gap and bline of a report
UnitFields(r) ==
    (IF r.size = None THEN {} ELSE {r.size[1].width_unit, r.size[1].height_unit})
      \cup (IF r.gap = None THEN {} ELSE {r.gap[1].height_unit, r.gap[1].offset_unit})
      \cup (IF r.bline = None THEN {}
            ELSE {r.bline[1].height_unit, r.bline[1].offset_unit})

\* the two unit fields, in the order of the line, of the field that kw sets
UnitPair(r, kw) ==
    IF kw = SIZE
    THEN IF r.size = None THEN None
         ELSE <<r.size[1].width_unit, r.size[1].height_unit>>
    ELSE IF kw = GAP
    THEN IF r.gap = None THEN None
         ELSE <<r.gap[1].height_unit, r.gap[1].offset_unit>>
    ELSE IF r.bline = None THEN None
         ELSE <<r.bline[1].height_unit, r.bline[1].offset_unit>>

\* the suffix as it is written, without the space before it
Written(suffix) == SelectSeq(suffix, LAMBDA c : c # " ")

(* C11 as claimed: for every SIZE, GAP or BLINE line accepted by the       *)
(* grammar each unit field is "mm" or "dots", and is "dots" when the       *)
(* suffix is omitted.                                                      *)
C11_UnitsMmOrDots ==
    pc = "parsed" =>
      /\ UnitFields(result) \subseteq {<<"m", "m">>, <<"d", "o", "t", "s">>}
      /\ \A kw \in {SIZE, GAP, BLINE} : \A n1, n2 \in Dimensions :
         \A s1, s2 \in Suffixes :
           content = UnitLine(kw, n1, s1, n2, s2) \o <<"\n">> =>
             /\ UnitPair(result, kw) # None
             /\ s1 = <<>> => UnitPair(result, kw)[1] = <<"d", "o", "t", "s">>
             /\ s2 = <<>> => UnitPair(result, kw)[2] = <<"d", "o", "t", "s">>

(* C11 amended: for every SIZE, GAP or BLINE line accepted by the grammar  *)
(* each unit field is "mm", "dot" or "dots": it is the suffix as written   *)
(* on the line ("dot" stays "dot"), and is "dots" when the suffix is       *)
(* omitted.                                                                *)
C11_UnitsAsWritten ==
    pc = "parsed" =>
      /\ UnitFields(result)
            \subseteq {<<"m", "m">>, <<"d", "o", "t">>, <<"d", "o", "t", "s">>}
      /\ \A kw \in {SIZE, GAP, BLINE} : \A n1, n2 \in Dimensions :
         \A s1, s2 \in Suffixes :
           content = UnitLine(kw, n1, s1, n2, s2) \o <<"\n">> =>
             UnitPair(result, kw)
               = <<IF s1 = <<>> THEN <<"d", "o", "t", "s">> ELSE Written(s1),
                   IF s2 = <<>> THEN <<"d", "o", "t", "s">> ELSE Written(s2)>>

C11_Witness ==
    /\ pc = "parsed"
    /\ content = UnitLine(BLINE, <<"2", ".", "5">>, <<" ", "d", "o", "t">>,
                          <<"1", "0", "0">>, <<>>) \o <<"\n">>
    /\ result.bline # None
    /\ result.bline[1].height_unit = <<"d", "o", "t">>
    /\ result.bline[1].offset_unit = <<"d", "o", "t", "s">>
    /\ result.size = None

\* the bytes before the first occurrence of BITMAP, or all of them without one
BeforeMarker(bs) ==
    IF Find(bs, BITMAP) = 0 THEN bs ELSE SubSeq(bs, 1, Find(bs, BITMAP) - 1)

\* the lines of the decoded bytes, each trimmed, without the empty ones
TrimmedLines(bs) ==
    LET ls == SplitLines(Decode(bs))
    IN  SelectSeq([i \in 1..Len(ls) |-> Strip(ls[i])], LAMBDA l : l # <<>>)

(* C12: raw_commands is the sequence of trimmed, non-empty lines of the    *)
(* bytes before the first occurrence of BITMAP, in their order, or of the  *)
(* whole input when BITMAP does not occur; what stands at or after the     *)
(* marker adds nothing to raw_commands and sets no line-parsed field.      *)
C12_SplitAtFirstMarker ==
    pc = "parsed" =>
      /\ result.raw_commands = TrimmedLines(BeforeMarker(content))
      /\ result.raw_commands = parse_tspl_output(BeforeMarker(content)).raw_commands
      /\ LineFields(result) = LineFields(parse_tspl_output(BeforeMarker(content)))

C12_Witness ==
    /\ pc = "parsed"
    /\ Find(content, BITMAP) # 0
    /\ SubSeq(content, Find(content, BITMAP), Len(content))
          = BITMAP_HEADER \o PAYLOAD_TEXT \o TRAILER
    /\ result.raw_commands = <<L_DENSITY8, CLS>>
    /\ result.size = None
    /\ result.cls
    /\ result.density = Some(8)

=============================================================================
